---- MODULE Spec2Model ----
(***************************************************************************)
(* Threshold Paillier (sachaservan/paillier): key generation, encryption,  *)
(* homomorphic operations, partial decryption with proofs, and share       *)
(* combining, modelled from the Go sources.                                *)
(*                                                                         *)
(* TLC's integers are 32 bits wide, so the arithmetic runs on 3-bit safe   *)
(* primes (5 and 7) and 3/4-bit primes where the program uses primes of 9  *)
(* bits and more.  Every operator computes what the Go code computes; only *)
(* the size of the numbers is scaled down.                                 *)
(***************************************************************************)
EXTENDS Integers, Sequences, FiniteSets, TLC

VARIABLES
    pc,       \* position of the session: which operation ran last
    tkg,      \* the ThresholdKeyGenerator's fields
    tpks,     \* the threshold secret keys GenerateKeys returned
    sk,       \* the single-key SecretKey from KeyGen
    cts,      \* ciphertexts produced so far (with the plaintext each encrypts)
    target,   \* the ciphertext handed to decryption
    shares,   \* the partial decryptions handed to the combiner
    query,    \* the arguments of the last VerifyDecryption call
    heap,     \* the memory the keys live in: Int objects, slices, key objects
    result,   \* what the last combining / verifying / decrypting call returned
    pkc,      \* the PublicKey's cache fields n2, n3, n2BigInt and the Ints made for them
    thr       \* the threads calling GetN2, GetN3, GetN2AsBigInt on the one key

vars == <<pc, tkg, tpks, sk, cts, target, shares, query, heap, result, pkc, thr>>

(***************************************************************************)
(* Bounds of the model.                                                    *)
(***************************************************************************)
MaxServers == 5
MaxSafePrime == 107
MaxThreshold == 2
MaxShares == 3
MaxCts == 2
MaxScalar == 3
MaxForgedID == 3
MaxCopies == 1
MaxWrites == 2
MaxBase == 10
MaxModulus == 12
MaxValues == 3
MaxThreads == 2
MaxCalls == 2
MaxDrawnPrime == 11
MaxExponent == 3

(***************************************************************************)
(* Big-integer facade (github.com/ncw/gmp as the sources use it).          *)
(***************************************************************************)
Abs(x) == IF x < 0 THEN -x ELSE x

\* gmp.Int.Div: Euclidean division, the remainder is never negative.
EuclidDiv(x, y) == IF y > 0 THEN x \div y ELSE -(x \div (-y))

\* gmp.Int.Mod: Euclidean modulus.
EuclidMod(x, y) == x % Abs(y)

RECURSIVE GCD(_, _)
GCD(a, b) == IF b = 0 THEN Abs(a) ELSE GCD(b, a % Abs(b))

\* Extended Euclid: the coefficient s with s*a + t*b = gcd(a, b).
RECURSIVE BezoutS(_, _)
BezoutS(a, b) ==
    IF b = 0 THEN <<1, 0>>
    ELSE LET r == BezoutS(b, a % b)
         IN  <<r[2], r[1] - (a \div b) * r[2]>>

\* gmp.Int.ModInverse: mpz_invert.  When no inverse exists mpz_invert leaves
\* its result undefined; u is the value the build leaves there.
ModInverseU(g, n, u) ==
    IF GCD(g % n, n) = 1 THEN BezoutS(g % n, n)[1] % n ELSE u

\* gmp.Int.Exp(x, y, m) with a modulus: 1 for y <= 0, x^y mod m otherwise.
RECURSIVE ExpMod(_, _, _)
ExpMod(x, y, m) ==
    IF y <= 0 THEN 1
    ELSE IF y % 2 = 0
         THEN LET h == ExpMod(x, y \div 2, m) IN (h * h) % m
         ELSE ((x % m) * ExpMod(x, y - 1, m)) % m

\* gmp.Int.Exp(x, y, nil): x^y over the integers.
RECURSIVE ExpNil(_, _)
ExpNil(x, y) == IF y <= 0 THEN 1 ELSE x * ExpNil(x, y - 1)

ZeroBigInt == 0
OneBigInt == 1
TwoBigInt == 2
FourBigInt == 4

RECURSIVE Factorial(_)
Factorial(n) == IF n <= 0 THEN 1 ELSE n * Factorial(n - 1)

\* L(u, n) = (u - 1) / n
L(u, n) == EuclidDiv(u - 1, n)

\* Int.Bytes: the big-endian bytes of |x|, none for 0.
RECURSIVE Bytes(_)
Bytes(x) ==
    IF Abs(x) = 0 THEN <<>>
    ELSE Append(Bytes(Abs(x) \div 256), Abs(x) % 256)

\* Int.SetBytes: the unsigned big-endian value of the bytes.
RECURSIVE SetBytes(_)
SetBytes(bs) ==
    IF Len(bs) = 0 THEN 0
    ELSE 256 * SetBytes(SubSeq(bs, 1, Len(bs) - 1)) + bs[Len(bs)]

ToGmpInt(a) == SetBytes(Bytes(a))

ToBigInt(a) == SetBytes(Bytes(a))

IsPrime(x) == x >= 2 /\ \A k \in 2..(x - 1) : k * k > x \/ x % k # 0

(***************************************************************************)
(* Randomness.  Every draw of the program is a choice from a small pool.   *)
(***************************************************************************)
\* rand.Int(random, n): some value of [0, n).
RandInt(n) == {x \in {0, 2, n - 1} : 0 <= x /\ x < n}

\* What mpz_invert may leave in its result when no inverse exists.
UndefPool == {0, 1}

\* GetRandomNumberInMultiplicativeGroup(n): draws again while the draw is 0
\* or shares a factor with n, so what it returns is a unit of [1, n).
GetRandomNumberInMultiplicativeGroup(n) ==
    {r \in RandInt(n) : ~(ZeroBigInt = r \/ OneBigInt # GCD(n, r))}

\* GetRandomGeneratorOfTheQuadraticResidue(n): r*r mod n for such an r.
GetRandomGeneratorOfTheQuadraticResidue(n) ==
    {EuclidMod(r * r, n) : r \in GetRandomNumberInMultiplicativeGroup(n)}

\* GenerateSafePrime(bits): a prime p of that many bits with (p-1)/2 prime.
SafePrimePool == {p \in 4..7 : IsPrime(p) /\ IsPrime((p - 1) \div 2)}

\* The safe primes up to k.
SafePrimesUpTo(k) == {p \in 5..k : IsPrime(p) /\ IsPrime((p - 1) \div 2)}

\* rand.Prime(bits): a prime of that many bits.
PrimePool(bits) ==
    {p \in ExpNil(2, bits - 1)..(ExpNil(2, bits) - 1) : IsPrime(p)}

(***************************************************************************)
(* paillier.go: public key, encryption levels, single-key scheme.          *)
(***************************************************************************)
EncLevelTwo == 0
EncLevelThree == 1
DefaultEncryptionLevel == EncLevelTwo

GetN2(pk) == pk.N * pk.N

GetN3(pk) == (pk.N * pk.N) * pk.N

\* getModuliForLevel: <<s, N^s, N^(s+1)>>
getModuliForLevel(pk, level) ==
    IF level = EncLevelThree THEN <<2, GetN2(pk), GetN3(pk)>>
    ELSE <<1, pk.N, GetN2(pk)>>

\* A Ciphertext is [C, Level]; the model also records in m the plaintext an
\* honest ciphertext encrypts.
EncryptWithRAtLevel(pk, m, r, level) ==
    LET mods == getModuliForLevel(pk, level)
        ns   == mods[2]
        ns1  == mods[3]
        g    == pk.N + 1
        gm   == ExpMod(g, m, ns1)
        rn   == ExpMod(r, ns, ns1)
    IN  [C |-> EuclidMod(rn * gm, ns1), Level |-> level, m |-> m]

EncryptWithR(pk, m, r) == EncryptWithRAtLevel(pk, m, r, DefaultEncryptionLevel)

minusOne(x) == x + (-1)

computePhi(p, q) == minusOne(p) * minusOne(q)

\* KeyGen once its loop has drawn the primes p1 and q1 it keeps.
KeyGenFrom(p1, q1) ==
    [N |-> p1 * q1, Lambda |-> computePhi(p1, q1), m |-> ToGmpInt(p1 * q1)]

\* recoveryAlgorithm for s = 1: the inner loop over k = 2..j is empty.
recoveryAlgorithm(key, a, s) ==
    LET nj1  == ExpNil(key.N, 2)
        amod == EuclidMod(a, nj1)
    IN  L(amod, key.N)

\* A faulty Decrypt: the multiplication by the inverse of Lambda is left out.
Decrypt_noMu(key, ct, u) ==
    LET mods == getModuliForLevel(key, ct.Level)
        tmp  == ExpMod(ct.C, key.Lambda, mods[3])
    IN  EuclidMod(recoveryAlgorithm(key, tmp, mods[1]), mods[2])

Decrypt(key, ct, u) ==
    LET mods == getModuliForLevel(key, ct.Level)
        tmp  == ExpMod(ct.C, key.Lambda, mods[3])
        ml   == recoveryAlgorithm(key, tmp, mods[1])
        mu   == ModInverseU(key.Lambda, mods[2], u)
    IN  EuclidMod(ml * mu, mods[2])

(***************************************************************************)
(* operations.go: homomorphic operations.                                  *)
(***************************************************************************)
RECURSIVE AddLoop(_, _, _)
AddLoop(acc, cs, ns1) ==
    IF Len(cs) = 0 THEN acc
    ELSE AddLoop(EuclidMod(acc * Head(cs).C, ns1), Tail(cs), ns1)

\* Add(cts...): cts[0].Level is read first, so an empty list panics.
Add(pk, cs) ==
    LET level == cs[1].Level
        ns1   == getModuliForLevel(pk, level)[3]
    IN  [C |-> AddLoop(1, cs, ns1), Level |-> level]

RECURSIVE SubLoop(_, _, _, _)
SubLoop(acc, cs, ns1, u) ==
    IF Len(cs) = 0 THEN acc
    ELSE LET neg == ModInverseU(Head(cs).C, ns1, u)
         IN  SubLoop(EuclidMod(acc * neg, ns1), Tail(cs), ns1, u)

\* A faulty Sub: the factors are multiplied in as they are, not inverted.
Sub_noInverse(pk, cs, u) == Add(pk, cs)

Sub(pk, cs, u) ==
    LET level == cs[1].Level
        ns1   == getModuliForLevel(pk, level)[3]
    IN  [C |-> SubLoop(cs[1].C, Tail(cs), ns1, u), Level |-> level]

\* A faulty ConstMult: the ciphertext is multiplied by k, not raised to it.
ConstMult_times(pk, ct, k) ==
    [C |-> EuclidMod(ct.C * k, getModuliForLevel(pk, ct.Level)[3]),
     Level |-> ct.Level]

ConstMult(pk, ct, k) ==
    LET ns1 == getModuliForLevel(pk, ct.Level)[3]
    IN  [C |-> ExpMod(ct.C, k, ns1), Level |-> ct.Level]

(***************************************************************************)
(* thresholdkey_generator.go                                               *)
(***************************************************************************)
NoGenerator ==
    [PublicKeyBitLength |-> 0, TotalNumberOfDecryptionServers |-> 0,
     Threshold |-> 0, p |-> 0, q |-> 0, p1 |-> 0, q1 |-> 0]

\* A faulty arePsAndQsGood: only p = q is turned down.
arePsAndQsGood_distinctOnly(g) ==
    IF g.p = g.q THEN FALSE
    ELSE TRUE

arePsAndQsGood(g) ==
    IF g.p = g.q THEN FALSE
    ELSE IF g.p = g.q1 THEN FALSE
    ELSE IF g.p1 = g.q THEN FALSE
    ELSE TRUE

\* initShortcuts: <<n, m, nSquare, nm>>
initShortcuts(g) ==
    [n |-> g.p * g.q, m |-> g.p1 * g.q1,
     nSquare |-> (g.p * g.q) * (g.p * g.q), nm |-> (g.p * g.q) * (g.p1 * g.q1)]

initD(sc, u) == ModInverseU(sc.m, sc.n, u) * sc.m

\* generateHidingPolynomial: coefficient 0 is d, the others are drawn.
HidingPolynomials(d, nm, w) ==
    {cf \in [1..w -> RandInt(nm) \cup {d}] : cf[1] = d}

RECURSIVE computeShareSum(_, _, _)
computeShareSum(coef, index, i) ==
    IF i >= Len(coef) THEN 0
    ELSE coef[i + 1] * ExpNil(index + 1, i) + computeShareSum(coef, index, i + 1)

\* computeShare(index): f(index + 1) mod nm
computeShare(coef, index, nm) == EuclidMod(computeShareSum(coef, index, 0), nm)

createShares(coef, l, nm) == [i \in 1..l |-> computeShare(coef, i - 1, nm)]

\* A faulty createVerificationKeys: the share is not multiplied by delta.
createVerificationKeys_noDelta(ss, v, l, nSquare) ==
    [i \in 1..Len(ss) |-> ExpMod(v, ss[i], nSquare)]

createVerificationKeys(ss, v, l, nSquare) ==
    [i \in 1..Len(ss) |-> ExpMod(v, ss[i] * Factorial(l), nSquare)]

\* A faulty createSecretKey: the ID is the 0-based position.
createSecretKey_zeroBased(g, sc, v, i, share, verificationKeys) ==
    [N |-> sc.n, VerificationKey |-> v,
     TotalNumberOfDecryptionServers |-> g.TotalNumberOfDecryptionServers,
     Threshold |-> g.Threshold, Share |-> share, ID |-> i,
     VerificationKeys |-> verificationKeys]

createSecretKey(g, sc, v, i, share, verificationKeys) ==
    [N |-> sc.n, VerificationKey |-> v,
     TotalNumberOfDecryptionServers |-> g.TotalNumberOfDecryptionServers,
     Threshold |-> g.Threshold, Share |-> share, ID |-> i + 1,
     VerificationKeys |-> verificationKeys]

createPrivateKeys(g, sc, v, coef) ==
    LET l  == g.TotalNumberOfDecryptionServers
        ss == createShares(coef, l, sc.nm)
        vk == createVerificationKeys(ss, v, l, sc.nSquare)
    IN  [i \in 1..l |-> createSecretKey(g, sc, v, i - 1, ss[i], vk)]

(***************************************************************************)
(* thresholdkey.go: partial decryption and share combining.                *)
(***************************************************************************)
delta(tk) == Factorial(tk.TotalNumberOfDecryptionServers)

combineSharesConstant(tk, u) ==
    ModInverseU(FourBigInt * (delta(tk) * delta(tk)), tk.N, u)

RECURSIVE IDSet(_)
IDSet(ss) == IF Len(ss) = 0 THEN {} ELSE {Head(ss).ID} \cup IDSet(Tail(ss))

\* A faulty verifyPartialDecryptions: a list of exactly Threshold shares is
\* turned away.
verifyPartialDecryptions_strict(tk, ss) ==
    IF Len(ss) <= tk.Threshold THEN "Threshold not meet"
    ELSE IF Cardinality(IDSet(ss)) # Len(ss)
         THEN "two shares has been created by the same server"
         ELSE "ok"

\* verifyPartialDecryptions: "ok" or the error it returns.
verifyPartialDecryptions(tk, ss) ==
    IF Len(ss) < tk.Threshold THEN "Threshold not meet"
    ELSE IF Cardinality(IDSet(ss)) # Len(ss)
         THEN "two shares has been created by the same server"
         ELSE "ok"

\* A faulty updateLambda: the numerator is multiplied by share2.ID, not by
\* its negation.
updateLambda_noSign(share1, share2, lambda) ==
    LET num   == lambda * share2.ID
        denom == share1.ID - share2.ID
    IN  EuclidDiv(num, denom)

updateLambda(share1, share2, lambda) ==
    LET num   == lambda * (-share2.ID)
        denom == share1.ID - share2.ID
    IN  EuclidDiv(num, denom)

RECURSIVE computeLambdaLoop(_, _, _)
computeLambdaLoop(share, rest, lambda) ==
    IF Len(rest) = 0 THEN lambda
    ELSE computeLambdaLoop(share, Tail(rest),
            IF Head(rest).ID # share.ID
            THEN updateLambda(share, Head(rest), lambda)
            ELSE lambda)

computeLambda(tk, share, ss) == computeLambdaLoop(share, ss, delta(tk))

\* exp(a, b, c): a^b mod c, through the inverse of a^|b| when b < 0.
exp(a, b, c, u) ==
    IF b < ZeroBigInt THEN ModInverseU(ExpMod(a, -b, c), c, u)
    ELSE ExpMod(a, b, c)

updateCprime(tk, cprime, lambda, share, u) ==
    LET twoLambda == TwoBigInt * lambda
        ret       == exp(share.Decryption, twoLambda, GetN2(tk), u)
    IN  EuclidMod(cprime * ret, GetN2(tk))

computeDecryption(tk, cprime, u) ==
    EuclidMod(combineSharesConstant(tk, u) * L(cprime, tk.N), tk.N)

RECURSIVE combineLoop(_, _, _, _, _)
combineLoop(tk, rest, ss, cprime, u) ==
    IF Len(rest) = 0 THEN cprime
    ELSE combineLoop(tk, Tail(rest), ss,
            updateCprime(tk, cprime, computeLambda(tk, Head(rest), ss),
                         Head(rest), u), u)

\* What a call returns: a plaintext, an error, or a run-time panic.
Ok(v) == [kind |-> "ok", val |-> v]
Err(e) == [kind |-> "err", val |-> e]
Panic == [kind |-> "panic", val |-> "index out of range"]
NoResult == [kind |-> "none", val |-> "none"]

CombinePartialDecryptions(tk, ss, u) ==
    LET err == verifyPartialDecryptions(tk, ss)
    IN  IF err # "ok" THEN Err(err)
        ELSE Ok(computeDecryption(tk, combineLoop(tk, ss, ss, OneBigInt, u), u))

\* A faulty PartialDecrypt: the factor 2 is left out of the exponent.
PartialDecrypt_noTwo(tsk, c) ==
    [ID |-> tsk.ID,
     Decryption |-> ExpMod(c, tsk.Share * delta(tsk), GetN2(tsk))]

\* PartialDecrypt: every operand goes through Bytes and SetBytes.
PartialDecrypt(tsk, c) ==
    LET e     == tsk.Share * (TwoBigInt * delta(tsk))
        gmpE  == SetBytes(Bytes(e))
        gmpC  == SetBytes(Bytes(c))
        gmpN2 == SetBytes(Bytes(GetN2(tsk)))
    IN  [ID |-> tsk.ID,
         Decryption |-> SetBytes(Bytes(ExpMod(gmpC, gmpE, gmpN2)))]

(***************************************************************************)
(* thresholdkey.go: zero-knowledge proofs of partial decryption.           *)
(***************************************************************************)
\* Unreduced products do not fit TLC's integers: the bytes of x*y are
\* computed by long multiplication on the bytes of x and y.
Reverse(sq) == [i \in 1..Len(sq) |-> sq[Len(sq) + 1 - i]]

\* Column k (from the least significant byte) of the products of the bytes.
Column(a, b, k) ==
    LET idx == {i \in 1..Len(a) : k + 2 - i >= 1 /\ k + 2 - i <= Len(b)}
        RECURSIVE sum(_)
        sum(S) == IF S = {} THEN 0
                  ELSE LET i == CHOOSE x \in S : TRUE
                       IN  a[i] * b[k + 2 - i] + sum(S \ {i})
    IN  sum(idx)

RECURSIVE CarryBytes(_, _, _, _)
CarryBytes(a, b, k, carry) ==
    IF k > Len(a) + Len(b) - 2
    THEN IF carry = 0 THEN <<>>
         ELSE <<carry % 256>> \o CarryBytes(a, b, k, carry \div 256)
    ELSE LET t == Column(a, b, k) + carry
         IN  <<t % 256>> \o CarryBytes(a, b, k + 1, t \div 256)

\* Bytes of the product of two byte strings (big-endian, no leading zero).
MulBytes(x, y) ==
    IF Len(x) = 0 \/ Len(y) = 0 THEN <<>>
    ELSE Reverse(CarryBytes(Reverse(x), Reverse(y), 0, 0))

\* The bytes of Exp(c, 4, nil).
Pow4Bytes(c) == MulBytes(Bytes(c * c), Bytes(c * c))

\* The same computation on operands wider than TLC's integers: a product
\* modulo n is built from b's hexadecimal digits, the exponent is taken byte
\* by byte from exp.Bytes().
RECURSIVE MulModWide(_, _, _)
MulModWide(a, b, n) ==
    IF b = 0 THEN 0
    ELSE LET hi == MulModWide(a, b \div 16, n)
         IN  IF hi >= 0
             THEN (((hi * 16) % n) + ((a * (b % 16)) % n)) % n
             ELSE 0

RECURSIVE ExpModWide(_, _, _)
ExpModWide(x, y, n) ==
    IF y <= 0 THEN 1 % n
    ELSE LET h == ExpModWide(x, y \div 2, n)
         IN  IF h >= 0
             THEN LET sq == MulModWide(h, h, n)
                  IN  IF sq >= 0 /\ y % 2 = 1 THEN MulModWide(sq, x, n) ELSE sq
             ELSE 0

RECURSIVE ExpModBytes(_, _, _, _)
ExpModBytes(acc, x, bs, n) ==
    IF Len(bs) = 0 THEN acc
    ELSE LET up   == ExpModWide(acc, 256, n)
             step == ExpModWide(x, Head(bs), n)
         IN  IF up >= 0 /\ step >= 0
             THEN LET nxt == MulModWide(up, step, n)
                  IN  IF nxt >= 0 THEN ExpModBytes(nxt, x, Tail(bs), n) ELSE 0
             ELSE 0

PartialDecryptWide(tsk, c) ==
    LET expB == MulBytes(Bytes(tsk.Share), Bytes(TwoBigInt * delta(tsk)))
        gmpC  == SetBytes(Bytes(c))
        gmpN2 == SetBytes(Bytes(tsk.N * tsk.N))
    IN  [ID |-> tsk.ID,
         Decryption |-> SetBytes(Bytes(ExpModBytes(1 % gmpN2, gmpC, expB, gmpN2)))]

\* Exp(c, 4, nil) as a base modulo n2.
Pow4Mod(c, n2) == EuclidMod(EuclidMod(c * c, n2) * EuclidMod(c * c, n2), n2)

\* sha256 of a byte string, scaled down to HashSpace values; the caller
\* reads the digest as an unsigned integer (SetBytes).
HashSpace == 8

RECURSIVE sha256(_, _)
sha256(bs, h) ==
    IF Len(bs) = 0 THEN h
    ELSE sha256(Tail(bs), (h * 31 + Head(bs) + 1) % HashSpace)

\* hash.Write of each value's bytes in turn, then Sum.
computeHashBytes(aB, bB, c4B, ci2B) == sha256(aB \o bB \o c4B \o ci2B, 0)

copyVerificationKeys(tsk) ==
    [i \in 1..Len(tsk.VerificationKeys) |-> tsk.VerificationKeys[i] + 0]

\* tsk.PublicKey()
PublicKey(tsk) ==
    [Threshold |-> tsk.Threshold,
     TotalNumberOfDecryptionServers |-> tsk.TotalNumberOfDecryptionServers,
     VerificationKey |-> tsk.VerificationKey,
     VerificationKeys |-> copyVerificationKeys(tsk),
     N |-> tsk.N + 0]

NilKey == [Threshold |-> 0, TotalNumberOfDecryptionServers |-> 0,
           VerificationKey |-> 0, VerificationKeys |-> <<>>, N |-> 0]

\* A faulty computeZ: delta is left out of the response.
computeZ_noDelta(tsk, r, e) == r + e * tsk.Share

computeZ(tsk, r, e) == r + (e * delta(tsk)) * tsk.Share

computeHash(a, b, c4B, ci2) == computeHashBytes(Bytes(a), Bytes(b), c4B, Bytes(ci2))

\* PartialDecryptionWithZKP(c) with r the number rand.Int drew.
PartialDecryptionWithZKP(tsk, c, r) ==
    LET dec == PartialDecrypt(tsk, c).Decryption
        n2  == GetN2(tsk)
        a   == ExpMod(Pow4Mod(c, n2), r, n2)
        b   == ExpMod(tsk.VerificationKey, r, n2)
        ci2 == ExpNil(dec, 2)
        e   == computeHash(a, b, Pow4Bytes(c), ci2)
    IN  [ID |-> tsk.ID, Decryption |-> dec, Key |-> PublicKey(tsk),
         C |-> c, E |-> e, Z |-> computeZ(tsk, r, e)]

verifyPart1(pd, u) ==
    LET n2 == GetN2(pd.Key)
        c4 == Pow4Mod(pd.C, n2)
        decryption2 == ExpNil(pd.Decryption, TwoBigInt)
        a1 == ExpMod(c4, pd.Z, n2)
        a2 == ModInverseU(ExpMod(decryption2, pd.E, n2), n2, u)
    IN  EuclidMod(a1 * a2, n2)

verifyPart2(pd, u) ==
    LET n2 == GetN2(pd.Key)
        vi == pd.Key.VerificationKeys[pd.ID - 1 + 1]
        b1 == ExpMod(pd.Key.VerificationKey, pd.Z, n2)
        b2 == ModInverseU(ExpMod(vi, pd.E, n2), n2, u)
    IN  EuclidMod(b1 * b2, n2)

\* VerifyProof: "true", "false", or "panic" when pd.Key is nil or pd.ID - 1 is
\* no index of pd.Key.VerificationKeys.
VerifyProof(pd, u) ==
    IF pd.Key = NilKey THEN "panic"
    ELSE IF pd.ID - 1 < 0 \/ pd.ID - 1 >= Len(pd.Key.VerificationKeys)
         THEN "panic"
         ELSE LET a == verifyPart1(pd, u)
                  b == verifyPart2(pd, u)
                  expectedE == computeHashBytes(Bytes(a), Bytes(b),
                                   Pow4Bytes(pd.C),
                                   Bytes(ExpNil(pd.Decryption, TwoBigInt)))
              IN  IF pd.E = expectedE THEN "true" ELSE "false"

StripProof(pd) == [ID |-> pd.ID, Decryption |-> pd.Decryption]

RECURSIVE verifiedShares(_, _)
verifiedShares(ss, u) ==
    IF Len(ss) = 0 THEN <<>>
    ELSE (IF VerifyProof(Head(ss), u) = "true" THEN <<StripProof(Head(ss))>>
          ELSE <<>>) \o verifiedShares(Tail(ss), u)

CombinePartialDecryptionsZKP(tk, ss, u) ==
    IF \E i \in 1..Len(ss) : VerifyProof(ss[i], u) = "panic" THEN Panic
    ELSE CombinePartialDecryptions(tk, verifiedShares(ss, u), u)

\* A faulty VerifyDecryption: the shares' C is not compared with the
\* ciphertext asked about.
VerifyDecryption_noCheck(tk, encryptedMessage, decryptedMessage, ss, u) ==
    LET res == CombinePartialDecryptionsZKP(tk, ss, u)
    IN  IF res.kind # "ok" THEN res
        ELSE IF res.val # decryptedMessage
             THEN Err("The decrypted message is not the same than the one in the shares")
             ELSE Ok(0)

\* VerifyDecryption: Ok(0) stands for the nil error.
VerifyDecryption(tk, encryptedMessage, decryptedMessage, ss, u) ==
    IF \E i \in 1..Len(ss) : ss[i].C # encryptedMessage
    THEN Err("The encrypted message is not the same than the one in the shares")
    ELSE LET res == CombinePartialDecryptionsZKP(tk, ss, u)
         IN  IF res.kind # "ok" THEN res
             ELSE IF res.val # decryptedMessage
                  THEN Err("The decrypted message is not the same than the one in the shares")
                  ELSE Ok(0)

(***************************************************************************)
(* The memory layout of the keys.  An Int object is an entry of heap.ints  *)
(* and a *gmp.Int is its index; a slice is an entry of heap.arrs (its      *)
(* backing array of *gmp.Int) and is held by index; heap.keys are the key  *)
(* objects, the secret keys of GenerateKeys first; from is 0 for them and  *)
(* the key PublicKey() was called on for a copy.                           *)
(***************************************************************************)
NoHeap == [ints |-> <<>>, arrs |-> <<>>, keys |-> <<>>, writes |-> 0]

\* createPrivateKeys / createSecretKey as pointer assignments: every key gets
\* tkg.n, tkg.v and the one verificationKeys slice.
createPrivateKeysLayout(ks) ==
    LET l == Len(ks)
    IN  [ints |-> <<ks[1].N, ks[1].VerificationKey>> \o ks[1].VerificationKeys,
         arrs |-> << [i \in 1..Len(ks[1].VerificationKeys) |-> 2 + i] >>,
         keys |-> [i \in 1..l |-> [N |-> 1, VerificationKey |-> 2,
                                   VerificationKeys |-> 1, from |-> 0]],
         writes |-> 0]

\* The values a key object's VerificationKeys slice holds.
VectorOf(h, k) ==
    [i \in 1..Len(h.arrs[h.keys[k].VerificationKeys]) |->
        h.ints[h.arrs[h.keys[k].VerificationKeys][i]]]

\* A faulty copyVerificationKeysAt: the new slice holds the old pointers.
copyVerificationKeysAt_shallow(h, k) ==
    [h EXCEPT !.arrs = Append(@, h.arrs[h.keys[k].VerificationKeys])]

\* copyVerificationKeys on key object k: a new slice of new Int objects,
\* each new(gmp.Int).Add(vi, 0).  The new slice is the last of arrs.
copyVerificationKeysAt(h, k) ==
    LET old == h.arrs[h.keys[k].VerificationKeys]
        n   == Len(h.ints)
    IN  [h EXCEPT !.ints = @ \o [i \in 1..Len(old) |-> h.ints[old[i]] + 0],
                  !.arrs = Append(@, [i \in 1..Len(old) |-> n + i])]

\* PublicKey() on key object k: V is the same pointer, the vector and N are
\* new objects.
PublicKeyAt(h, k) ==
    LET h1 == copyVerificationKeysAt(h, k)
        h2 == [h1 EXCEPT !.ints = Append(@, h.ints[h.keys[k].N] + 0)]
    IN  [h2 EXCEPT !.keys = Append(@, [N |-> Len(h2.ints),
                                       VerificationKey |-> h.keys[k].VerificationKey,
                                       VerificationKeys |-> Len(h1.arrs),
                                       from |-> k])]

(***************************************************************************)
(* The state machine.                                                      *)
(***************************************************************************)
NoKey == [N |-> 0, Lambda |-> 0, m |-> 0]
\* The cache fields are nil (0); no Int has been made for them.
NoCache == [n2 |-> 0, n3 |-> 0, n2BigInt |-> 0, objs |-> <<>>]
Idle ==
    [pc |-> "idle", fn |-> "none", recv |-> 0, calls |-> 0,
     ret |-> [fn |-> "none", ptr |-> 0, val |-> 0, seen |-> 0]]
NoQuery == [c |-> 0, m |-> 0]
NoCiphertext == [C |-> 0, Level |-> DefaultEncryptionLevel, m |-> 0, op |-> "none"]

Init ==
    /\ pc = "start"
    /\ tkg = NoGenerator
    /\ tpks = <<>>
    /\ sk = NoKey
    /\ cts = <<>>
    /\ target = NoCiphertext
    /\ shares = <<>>
    /\ query = NoQuery
    /\ heap = NoHeap
    /\ result = NoResult
    /\ pkc = NoCache
    /\ thr = [t \in 1..MaxThreads |-> Idle]

BitLengths == {-17, 16, 17, 18, 19, 20}

\* Go's %: the remainder has the sign of the dividend.
GoRem(a, b) == IF a >= 0 THEN a % b ELSE -((-a) % b)

\* A faulty NewThresholdKeyGenerator: the length is compared with 18 before
\* the parity is looked at.
NewThresholdKeyGenerator_lengthFirst(publicKeyBitLength, l, w) ==
    /\ pc = "start"
    /\ IF publicKeyBitLength < 18
       THEN /\ result' = Err("Public key bit length must be at least 18 bits")
            /\ pc' = "rejected"
            /\ tkg' = tkg
       ELSE IF GoRem(publicKeyBitLength, 2) = 1
       THEN /\ result' = Err("Public key bit length must be an even number")
            /\ pc' = "rejected"
            /\ tkg' = tkg
       ELSE /\ tkg' = [NoGenerator EXCEPT
                          !.PublicKeyBitLength = publicKeyBitLength,
                          !.TotalNumberOfDecryptionServers = l,
                          !.Threshold = w]
            /\ pc' = "tkg"
            /\ result' = result
    /\ UNCHANGED <<tpks, sk, cts, target, shares, query, heap, pkc, thr>>

NewThresholdKeyGenerator(publicKeyBitLength, l, w) ==
    /\ pc = "start"
    /\ IF GoRem(publicKeyBitLength, 2) = 1
       THEN /\ result' = Err("Public key bit length must be an even number")
            /\ pc' = "rejected"
            /\ tkg' = tkg
       ELSE IF publicKeyBitLength < 18
       THEN /\ result' = Err("Public key bit length must be at least 18 bits")
            /\ pc' = "rejected"
            /\ tkg' = tkg
       ELSE /\ tkg' = [NoGenerator EXCEPT
                          !.PublicKeyBitLength = publicKeyBitLength,
                          !.TotalNumberOfDecryptionServers = l,
                          !.Threshold = w]
            /\ pc' = "tkg"
            /\ result' = result
    /\ UNCHANGED <<tpks, sk, cts, target, shares, query, heap, pkc, thr>>

\* The errors GenerateSafePrime returns: the deadline passed, or the reader
\* failed.
SafePrimeErrors == {"TimeoutExceeded", "EntropyFailure"}

\* The error rand.Int hands on when the reader fails.
ReaderError == "EntropyFailure"

\* A faulty initPsAndQs: the pair drawn is kept whatever arePsAndQsGood says.
initPsAndQsFrom_noRetry(pool) ==
    /\ pc = "tkg"
    /\ \E p \in pool \cup {0}, q \in pool \cup {0} :
          LET g == IF p = 0
                   THEN [tkg EXCEPT !.p = 0, !.p1 = 0]
                   ELSE IF q = 0
                   THEN [tkg EXCEPT !.p = p, !.p1 = (p - 1) \div 2,
                                    !.q = 0, !.q1 = 0]
                   ELSE [tkg EXCEPT !.p = p, !.p1 = (p - 1) \div 2,
                                    !.q = q, !.q1 = (q - 1) \div 2]
          IN  /\ tkg' = g
              /\ IF p = 0 \/ q = 0
                 THEN /\ pc' = "failed"
                      /\ \E e \in SafePrimeErrors : result' = Err(e)
                 ELSE /\ pc' = "primes"
                      /\ result' = result
    /\ UNCHANGED <<tpks, sk, cts, target, shares, query, heap, pkc, thr>>

\* initPsAndQs with GenerateSafePrime drawing from pool: one round of drawing
\* p and q; a bad pair is drawn again.  A failed draw leaves nil in the pair
\* it was to fill and ends the call.
initPsAndQsFrom(pool) ==
    /\ pc = "tkg"
    /\ \E p \in pool \cup {0}, q \in pool \cup {0} :
          LET g == IF p = 0
                   THEN [tkg EXCEPT !.p = 0, !.p1 = 0]
                   ELSE IF q = 0
                   THEN [tkg EXCEPT !.p = p, !.p1 = (p - 1) \div 2,
                                    !.q = 0, !.q1 = 0]
                   ELSE [tkg EXCEPT !.p = p, !.p1 = (p - 1) \div 2,
                                    !.q = q, !.q1 = (q - 1) \div 2]
          IN  /\ tkg' = g
              /\ IF p = 0 \/ q = 0
                 THEN /\ pc' = "failed"
                      /\ \E e \in SafePrimeErrors : result' = Err(e)
                 ELSE /\ pc' = IF arePsAndQsGood(g) THEN "primes" ELSE "tkg"
                      /\ result' = result
    /\ UNCHANGED <<tpks, sk, cts, target, shares, query, heap, pkc, thr>>

initPsAndQs == initPsAndQsFrom(SafePrimePool)

\* The places where GenerateKeys can meet a failing reader after the primes.
GenerateKeysFaults == {"none", "computeV", "coefficient"}

\* A faulty GenerateKeys: when a coefficient cannot be drawn, the keys of the
\* polynomial built so far are handed out with the error.
GenerateKeys_partial ==
    /\ pc = "primes"
    /\ \E fault \in GenerateKeysFaults :
         IF fault = "computeV"
         THEN /\ pc' = "failed"
              /\ result' = Err(ReaderError)
              /\ tpks' = tpks
              /\ heap' = heap
         ELSE IF tkg.Threshold <= 0
         THEN /\ pc' = "panic"
              /\ result' = Panic
              /\ tpks' = tpks
              /\ heap' = heap
         ELSE \E u \in UndefPool :
              LET sc == initShortcuts(tkg)
                  d  == initD(sc, u)
              IN  IF fault = "coefficient" /\ tkg.Threshold >= 2
                  THEN /\ pc' = "failed"
                       /\ result' = Err(ReaderError)
                       /\ \E v \in GetRandomGeneratorOfTheQuadraticResidue(sc.nSquare) :
                             tpks' = createPrivateKeys(tkg, sc, v, <<d>>)
                       /\ heap' = heap
                  ELSE \E v \in GetRandomGeneratorOfTheQuadraticResidue(sc.nSquare),
                         coef \in HidingPolynomials(d, sc.nm, tkg.Threshold) :
                           /\ tpks' = createPrivateKeys(tkg, sc, v, coef)
                           /\ heap' = createPrivateKeysLayout(createPrivateKeys(tkg, sc, v, coef))
                           /\ pc' = "keys"
                           /\ result' = result
    /\ UNCHANGED <<tkg, sk, cts, target, shares, query, pkc, thr>>

\* GenerateKeys after the primes: initShortcuts, initD, computeV,
\* generateHidingPolynomial, createPrivateKeys.  computeV comes before the
\* polynomial is allocated; a coefficient is drawn only for i >= 1.  Either
\* failure returns nil with the error.
GenerateKeys ==
    /\ pc = "primes"
    /\ \E fault \in GenerateKeysFaults :
         IF fault = "computeV"
         THEN /\ pc' = "failed"
              /\ result' = Err(ReaderError)
              /\ tpks' = tpks
              /\ heap' = heap
         ELSE IF tkg.Threshold <= 0
         THEN /\ pc' = "panic"
              /\ result' = Panic
              /\ tpks' = tpks
              /\ heap' = heap
         ELSE \E u \in UndefPool :
              LET sc == initShortcuts(tkg)
                  d  == initD(sc, u)
              IN  IF fault = "coefficient" /\ tkg.Threshold >= 2
                  THEN /\ pc' = "failed"
                       /\ result' = Err(ReaderError)
                       /\ tpks' = tpks
                       /\ heap' = heap
                  ELSE \E v \in GetRandomGeneratorOfTheQuadraticResidue(sc.nSquare),
                         coef \in HidingPolynomials(d, sc.nm, tkg.Threshold) :
                           /\ tpks' = createPrivateKeys(tkg, sc, v, coef)
                           /\ heap' = createPrivateKeysLayout(createPrivateKeys(tkg, sc, v, coef))
                           /\ pc' = "keys"
                           /\ result' = result
    /\ UNCHANGED <<tkg, sk, cts, target, shares, query, pkc, thr>>

\* KeyGen(secparam): panics on an odd secparam; its loop draws two primes
\* of secparam/2 bits until they differ.
KeyGen(secparam) ==
    /\ pc = "start"
    /\ IF secparam % 2 # 0
       THEN /\ pc' = "panic"
            /\ result' = Panic
            /\ sk' = sk
       ELSE \E p1 \in PrimePool(secparam \div 2),
               q1 \in PrimePool(secparam \div 2) :
               /\ p1 # q1
               /\ sk' = KeyGenFrom(p1, q1)
               /\ pc' = "keys"
               /\ result' = result
    /\ UNCHANGED <<tkg, tpks, cts, target, shares, query, heap, pkc, thr>>

\* The public key the session works under.
ThePublicKey == IF Len(tpks) > 0 THEN tpks[1] ELSE sk

HasKey == pc = "keys"

Plaintexts(n) == {m \in {0, 2, n - 1} : 0 <= m /\ m < n}

\* Encrypt(m): r is drawn from the multiplicative group of N.
Encrypt(maxCts) ==
    /\ HasKey
    /\ Len(cts) < maxCts
    /\ \E m \in Plaintexts(ThePublicKey.N),
          r \in GetRandomNumberInMultiplicativeGroup(ThePublicKey.N) :
          cts' = Append(cts, EncryptWithR(ThePublicKey, m, r))
    /\ UNCHANGED <<pc, tkg, tpks, sk, target, shares, query, result, heap, pkc, thr>>

RECURSIVE SumOf(_)
SumOf(cs) == IF Len(cs) = 0 THEN 0 ELSE Head(cs).m + SumOf(Tail(cs))

\* The ciphertext handed on is one ciphertext as it is, or the outcome of
\* Add, Sub or ConstMult; m is the plaintext it is expected to carry.
UseCiphertext ==
    /\ HasKey /\ Len(cts) = 1
    /\ target' = [C |-> cts[1].C, Level |-> cts[1].Level, m |-> cts[1].m,
                  op |-> "Encrypt"]
    /\ pc' = "target"
    /\ UNCHANGED <<tkg, tpks, sk, cts, shares, query, result, heap, pkc, thr>>

DoAdd ==
    /\ HasKey /\ Len(cts) >= 1
    /\ LET c == Add(ThePublicKey, cts)
       IN  target' = [C |-> c.C, Level |-> c.Level,
                      m |-> SumOf(cts) % ThePublicKey.N, op |-> "Add"]
    /\ pc' = "target"
    /\ UNCHANGED <<tkg, tpks, sk, cts, shares, query, result, heap, pkc, thr>>

DoSub ==
    /\ HasKey /\ Len(cts) >= 1
    /\ \E u \in UndefPool :
         LET c == Sub(ThePublicKey, cts, u)
         IN  target' = [C |-> c.C, Level |-> c.Level,
                        m |-> (cts[1].m - SumOf(Tail(cts))) % ThePublicKey.N,
                        op |-> "Sub"]
    /\ pc' = "target"
    /\ UNCHANGED <<tkg, tpks, sk, cts, shares, query, result, heap, pkc, thr>>

DoConstMult ==
    /\ HasKey /\ Len(cts) = 1
    /\ \E k \in 0..MaxScalar :
         LET c == ConstMult(ThePublicKey, cts[1], k)
         IN  target' = [C |-> c.C, Level |-> c.Level,
                        m |-> (k * cts[1].m) % ThePublicKey.N,
                        op |-> "ConstMult"]
    /\ pc' = "target"
    /\ UNCHANGED <<tkg, tpks, sk, cts, shares, query, result, heap, pkc, thr>>

\* sk.Decrypt(target)
DoDecrypt ==
    /\ pc = "target" /\ Len(tpks) = 0
    /\ \E u \in UndefPool : result' = Ok(Decrypt(sk, target, u))
    /\ pc' = "decrypted"
    /\ UNCHANGED <<tkg, tpks, sk, cts, target, shares, query, heap, pkc, thr>>

\* Server i hands in PartialDecrypt(target).
SubmitShare(maxShares) ==
    /\ pc = "target" /\ Len(tpks) > 0
    /\ Len(shares) < maxShares
    /\ \E i \in 1..Len(tpks) :
          shares' = Append(shares, PartialDecrypt(tpks[i], target.C))
    /\ UNCHANGED <<pc, tkg, tpks, sk, cts, target, query, result, heap, pkc, thr>>

\* Somebody hands in a share no server produced.
ForgedDecryptions(n2) == {2, n2 - 1}

SubmitForgedShare(maxShares) ==
    /\ pc = "target" /\ Len(tpks) > 0
    /\ Len(shares) < maxShares
    /\ \E id \in 0..MaxForgedID, dv \in ForgedDecryptions(GetN2(ThePublicKey)) :
          shares' = Append(shares, [ID |-> id, Decryption |-> dv])
    /\ UNCHANGED <<pc, tkg, tpks, sk, cts, target, query, result, heap, pkc, thr>>

Combine ==
    /\ pc = "target" /\ Len(tpks) > 0
    /\ \E u \in UndefPool :
          result' = CombinePartialDecryptions(ThePublicKey, shares, u)
    /\ pc' = "combined"
    /\ UNCHANGED <<tkg, tpks, sk, cts, target, shares, query, heap, pkc, thr>>

\* The numbers rand.Int(rand.Reader, N^2) is taken to draw for a proof.
Nonces(n2) == {r \in {2, n2 - 1} : 0 <= r /\ r < n2}

\* Server i hands in PartialDecryptionWithZKP(target).
HonestProofs ==
    {PartialDecryptionWithZKP(tpks[i], target.C, r) :
        i \in 1..Len(tpks), r \in Nonces(GetN2(ThePublicKey))}

SubmitProof(maxShares) ==
    /\ pc = "target" /\ Len(tpks) > 0
    /\ Len(shares) < maxShares
    /\ \E pd \in HonestProofs : shares' = Append(shares, pd)
    /\ UNCHANGED <<pc, tkg, tpks, sk, cts, target, query, result, heap, pkc, thr>>

\* What somebody can make of a proof before handing it on.
Tampered(pd) ==
    {[pd EXCEPT !.E = pd.E + 1],
     [pd EXCEPT !.Decryption = EuclidMod(pd.Decryption + 1, GetN2(pd.Key))],
     [pd EXCEPT !.ID = 0],
     [pd EXCEPT !.C = pd.C + 1],
     [pd EXCEPT !.Key = NilKey]}

TamperProof ==
    /\ pc = "target" /\ Len(shares) > 0
    /\ \A i \in 1..Len(shares) : shares[i] \in HonestProofs
    /\ \E pd \in Tampered(shares[Len(shares)]) :
          shares' = [shares EXCEPT ![Len(shares)] = pd]
    /\ UNCHANGED <<pc, tkg, tpks, sk, cts, target, query, result, heap, pkc, thr>>

\* A key somebody makes up for server i: the public values of the real key
\* with a share of their own choosing and the verification keys that go
\* with that share.
ForgedShare == 1

ForgedKey(tsk) ==
    [tsk EXCEPT !.Share = ForgedShare,
                !.VerificationKeys =
                    createVerificationKeys(
                        [j \in 1..Len(tsk.VerificationKeys) |-> ForgedShare],
                        tsk.VerificationKey, tsk.TotalNumberOfDecryptionServers,
                        GetN2(tsk))]

\* Somebody hands in a proof made with such a key; the proof carries the
\* made-up key in its Key field.
SubmitForgedProof(maxShares) ==
    /\ pc = "target" /\ Len(tpks) > 0
    /\ Len(shares) < maxShares
    /\ \E i \in 1..Len(tpks) :
          shares' = Append(shares,
                       PartialDecryptionWithZKP(ForgedKey(tpks[i]), target.C, 2))
    /\ UNCHANGED <<pc, tkg, tpks, sk, cts, target, query, result, heap, pkc, thr>>

CombineZKP ==
    /\ pc = "target" /\ Len(tpks) > 0
    /\ \E u \in UndefPool :
          result' = CombinePartialDecryptionsZKP(ThePublicKey, shares, u)
    /\ pc' = "combinedZKP"
    /\ UNCHANGED <<tkg, tpks, sk, cts, target, shares, query, heap, pkc, thr>>

DoVerifyDecryption ==
    /\ pc = "target" /\ Len(tpks) > 0
    /\ \E u \in UndefPool,
          c \in {target.C, target.C + 1},
          m \in {target.m, (target.m + 1) % ThePublicKey.N} :
          /\ query' = [c |-> c, m |-> m]
          /\ result' = VerifyDecryption(ThePublicKey, c, m, shares, u)
    /\ pc' = "verified"
    /\ UNCHANGED <<tkg, tpks, sk, cts, target, shares, heap, pkc, thr>>

\* key.PublicKey() on one of the secret keys.
DoPublicKey ==
    /\ pc = "keys" /\ Len(tpks) > 0
    /\ Len(heap.keys) < Len(tpks) + MaxCopies
    /\ \E k \in 1..Len(tpks) : heap' = PublicKeyAt(heap, k)
    /\ UNCHANGED <<pc, tkg, tpks, sk, cts, target, shares, query, result, pkc, thr>>

\* The values somebody writes into a key.
WrittenValues == {0, 89}

\* key.VerificationKeys[i] = b(val): the entry gets a pointer to a new Int.
ReplaceEntry(x, i, val) ==
    /\ pc = "keys" /\ Len(tpks) > 0
    /\ heap.writes < MaxWrites
    /\ x \in 1..Len(heap.keys)
    /\ i \in 1..Len(heap.arrs[heap.keys[x].VerificationKeys])
    /\ heap' = [heap EXCEPT !.ints = Append(@, val),
                            !.arrs[heap.keys[x].VerificationKeys][i] = Len(heap.ints) + 1,
                            !.writes = @ + 1]
    /\ UNCHANGED <<pc, tkg, tpks, sk, cts, target, shares, query, result, pkc, thr>>

\* key.VerificationKeys[i].Set(b(val)): the Int the entry points to changes.
ChangeInPlace(x, i, val) ==
    /\ pc = "keys" /\ Len(tpks) > 0
    /\ heap.writes < MaxWrites
    /\ x \in 1..Len(heap.keys)
    /\ i \in 1..Len(heap.arrs[heap.keys[x].VerificationKeys])
    /\ heap' = [heap EXCEPT !.ints[heap.arrs[heap.keys[x].VerificationKeys][i]] = val,
                            !.writes = @ + 1]
    /\ UNCHANGED <<pc, tkg, tpks, sk, cts, target, shares, query, result, pkc, thr>>

\* key.N.Set(b(val)) or key.VerificationKey.Set(b(val)): the Int the field
\* points to changes.
KeyFields == {"N", "VerificationKey"}

ChangeFieldInPlace(x, field, val) ==
    /\ pc = "keys" /\ Len(tpks) > 0
    /\ heap.writes < MaxWrites
    /\ x \in 1..Len(heap.keys)
    /\ heap' = [heap EXCEPT !.ints[heap.keys[x][field]] = val,
                            !.writes = @ + 1]
    /\ UNCHANGED <<pc, tkg, tpks, sk, cts, target, shares, query, result, pkc, thr>>

(***************************************************************************)
(* Spec: threshold key generation, encryption, partial decryption by the   *)
(* servers and combining.                                                  *)
(***************************************************************************)
Next ==
    \/ \E b \in BitLengths, l \in 1..MaxServers, w \in 0..MaxThreshold :
          NewThresholdKeyGenerator(b, l, w)
    \/ initPsAndQs
    \/ GenerateKeys
    \/ Encrypt(1)
    \/ UseCiphertext
    \/ SubmitShare(MaxShares)
    \/ Combine

Spec == Init /\ [][Next]_vars

(***************************************************************************)
(* SpecForged: the combiner on share lists of any origin.                  *)
(***************************************************************************)
NextForged ==
    \/ \E l \in 1..2, w \in 1..2 : NewThresholdKeyGenerator(18, l, w)
    \/ initPsAndQs
    \/ GenerateKeys
    \/ Encrypt(1)
    \/ UseCiphertext
    \/ SubmitShare(MaxShares)
    \/ SubmitForgedShare(MaxShares)
    \/ Combine

SpecForged == Init /\ [][NextForged]_vars

(***************************************************************************)
(* SpecZKP: partial decryptions with proofs, combined and verified.        *)
(***************************************************************************)
NextZKP ==
    \/ \E w \in 1..2 : NewThresholdKeyGenerator(18, 2, w)
    \/ initPsAndQs
    \/ GenerateKeys
    \/ Encrypt(1)
    \/ UseCiphertext
    \/ SubmitProof(2)
    \/ SubmitForgedProof(2)
    \/ TamperProof
    \/ CombineZKP
    \/ DoVerifyDecryption

SpecZKP == Init /\ [][NextZKP]_vars

(***************************************************************************)
(* SpecHom: the single-key scheme and the homomorphic operations.          *)
(***************************************************************************)
NextHom ==
    \/ \E secparam \in 6..8 : KeyGen(secparam)
    \/ Encrypt(MaxCts)
    \/ UseCiphertext
    \/ DoAdd
    \/ DoSub
    \/ DoConstMult
    \/ DoDecrypt

SpecHom == Init /\ [][NextHom]_vars

(***************************************************************************)
(* SpecThresholdHom: homomorphic addition under a threshold key.           *)
(***************************************************************************)
NextThresholdHom ==
    \/ \E l \in 1..MaxServers : NewThresholdKeyGenerator(18, l, 1)
    \/ initPsAndQs
    \/ GenerateKeys
    \/ Encrypt(MaxCts)
    \/ DoAdd
    \/ SubmitShare(1)
    \/ Combine

SpecThresholdHom == Init /\ [][NextThresholdHom]_vars

(***************************************************************************)
(* SpecHeap: public-key copies and writes into keys.                       *)
(***************************************************************************)
NextHeap ==
    \/ \E l \in 1..2 : NewThresholdKeyGenerator(18, l, 1)
    \/ initPsAndQs
    \/ GenerateKeys
    \/ DoPublicKey
    \/ \E x \in 1..(2 + MaxCopies), i \in 1..2, val \in WrittenValues :
          ReplaceEntry(x, i, val)
    \/ \E x \in 1..(2 + MaxCopies), i \in 1..2, val \in WrittenValues :
          ChangeInPlace(x, i, val)
    \/ \E x \in 1..(2 + MaxCopies), field \in KeyFields, val \in WrittenValues :
          ChangeFieldInPlace(x, field, val)

SpecHeap == Init /\ [][NextHeap]_vars

(***************************************************************************)
(* SpecPrimes: key generation with the safe primes up to MaxDrawnPrime,    *)
(* among them pairs with p = (q - 1) / 2 and with (p - 1) / 2 = q.         *)
(***************************************************************************)
NextPrimes ==
    \/ \E l \in 1..2, w \in 1..2 : NewThresholdKeyGenerator(18, l, w)
    \/ initPsAndQsFrom(SafePrimesUpTo(MaxDrawnPrime))
    \/ GenerateKeys

SpecPrimes == Init /\ [][NextPrimes]_vars

(***************************************************************************)
(* SpecCache: threads calling GetN2, GetN3 and GetN2AsBigInt on one key.   *)
(* Every read and every write of a cache field is a step of its own; the   *)
(* fields are plain struct fields and nothing orders one thread's accesses *)
(* with another's.                                                         *)
(***************************************************************************)
CacheGetters == {"GetN2", "GetN3", "GetN2AsBigInt"}

\* The cache field a getter works on.
CacheField(fn) ==
    IF fn = "GetN2" THEN "n2" ELSE IF fn = "GetN3" THEN "n3" ELSE "n2BigInt"

\* What thread t can find in an Int it reads through a cache field.  The
\* thread that made the Int finds its value.  Another thread reads it with
\* no synchronisation after the writes that filled it: it finds the value,
\* or the Int as it was allocated (zero).
Visible(t, obj) == IF obj.by = t THEN {obj.val} ELSE {obj.val, 0}

\* Thread t enters fn.
CallGetter(t, fn) ==
    /\ pc = "keys" /\ tpks = <<>>
    /\ thr[t].pc = "idle" /\ thr[t].calls < MaxCalls
    /\ thr' = [thr EXCEPT ![t] = [@ EXCEPT !.pc = "check", !.fn = fn,
                                          !.calls = @ + 1]]
    /\ UNCHANGED <<pc, tkg, tpks, sk, cts, target, shares, query, heap, result, pkc>>

\* if pk.n2 != nil
CheckCache(t) ==
    /\ thr[t].pc = "check"
    /\ thr' = [thr EXCEPT ![t].pc =
                  IF pkc[CacheField(thr[t].fn)] # 0 THEN "return" ELSE "compute"]
    /\ UNCHANGED <<pc, tkg, tpks, sk, cts, target, shares, query, heap, result, pkc>>

\* pk.n2 = new(gmp.Int).Mul(pk.N, pk.N), and the same first statement of
\* GetN3; pk.n2BigInt = new(big.Int).Mul(N, N) with N from pk.N.Bytes().
StoreCache(t) ==
    /\ thr[t].pc = "compute"
    /\ LET fn == thr[t].fn
           n  == IF fn = "GetN2AsBigInt" THEN SetBytes(Bytes(sk.N)) ELSE sk.N
       IN  /\ pkc' = [pkc EXCEPT ![CacheField(fn)] = Len(pkc.objs) + 1,
                                 !.objs = Append(@, [val |-> n * n, by |-> t])]
           /\ thr' = [thr EXCEPT ![t].pc =
                         IF fn = "GetN3" THEN "mulRecv" ELSE "return"]
    /\ UNCHANGED <<pc, tkg, tpks, sk, cts, target, shares, query, heap, result>>

\* pk.n3.Mul(pk.n3, pk.N): the receiver pk.n3 is read.
MulReceiver(t) ==
    /\ thr[t].pc = "mulRecv"
    /\ thr' = [thr EXCEPT ![t] = [@ EXCEPT !.pc = "mulArg", !.recv = pkc.n3]]
    /\ UNCHANGED <<pc, tkg, tpks, sk, cts, target, shares, query, heap, result, pkc>>

\* pk.n3.Mul(pk.n3, pk.N): the argument pk.n3 is read and the product is
\* written into the receiver.
MulArgument(t) ==
    /\ thr[t].pc = "mulArg"
    /\ pkc' = [pkc EXCEPT !.objs[thr[t].recv].val = pkc.objs[pkc.n3].val * sk.N]
    /\ thr' = [thr EXCEPT ![t].pc = "return"]
    /\ UNCHANGED <<pc, tkg, tpks, sk, cts, target, shares, query, heap, result>>

\* return pk.n2: the field is read again and the caller looks at the Int.
ReturnCache(t) ==
    /\ thr[t].pc = "return"
    /\ LET ptr == pkc[CacheField(thr[t].fn)]
       IN  \E seen \in Visible(t, pkc.objs[ptr]) :
              thr' = [thr EXCEPT ![t] =
                        [@ EXCEPT !.pc = "idle", !.recv = 0,
                                  !.ret = [fn |-> thr[t].fn, ptr |-> ptr,
                                           val |-> pkc.objs[ptr].val,
                                           seen |-> seen]]]
    /\ UNCHANGED <<pc, tkg, tpks, sk, cts, target, shares, query, heap, result, pkc>>

NextCache ==
    \/ KeyGen(6)
    \/ \E t \in 1..MaxThreads, fn \in CacheGetters : CallGetter(t, fn)
    \/ \E t \in 1..MaxThreads : CheckCache(t)
    \/ \E t \in 1..MaxThreads : StoreCache(t)
    \/ \E t \in 1..MaxThreads : MulReceiver(t)
    \/ \E t \in 1..MaxThreads : MulArgument(t)
    \/ \E t \in 1..MaxThreads : ReturnCache(t)

SpecCache == Init /\ [][NextCache]_vars

(***************************************************************************)
(* SpecDigest: the byte strings RandomOracleDigest and computeHash hash.   *)
(***************************************************************************)
\* RandomOracleDigest: hashData collects b.Bytes() of every value but the
\* one at index 0, which the loop passes over.
RECURSIVE RandomOracleData(_, _)
RandomOracleData(values, i) ==
    IF i >= Len(values) THEN <<>>
    ELSE (IF i = 0 THEN <<>> ELSE Bytes(values[i + 1]))
         \o RandomOracleData(values, i + 1)

\* computeHash: what the four hash.Write calls feed to sha256, in turn.
HashWrites(a, b, c4, ci2) == Bytes(a) \o Bytes(b) \o Bytes(c4) \o Bytes(ci2)

DigestValues == {0, 1, 2, 256, 257}
DigestInputs ==
    UNION {[1..k -> DigestValues] : k \in 1..MaxValues}

ChallengeValues == {1, 2, 256, 257}
ChallengeCiphertexts == {1, 2, 4}
ChallengeDecryptions == {1, 16}

DoRandomOracleDigest(values) ==
    /\ pc = "start"
    /\ query' = [values |-> values]
    /\ result' = Ok([hashData |-> RandomOracleData(values, 0),
                     digest |-> sha256(RandomOracleData(values, 0), 0)])
    /\ pc' = "digest"
    /\ UNCHANGED <<tkg, tpks, sk, cts, target, shares, heap, pkc, thr>>

\* computeHash(a, b, c4, ci2) with c4 = c^4 and ci2 = ci^2 as
\* PartialDecryptionWithZKP and VerifyProof compute them.
DoComputeHash(a, b, c, ci) ==
    /\ pc = "start"
    /\ LET c4  == ExpNil(c, FourBigInt)
           ci2 == ExpNil(ci, TwoBigInt)
       IN  /\ query' = [a |-> a, b |-> b, c4 |-> c4, ci2 |-> ci2]
           /\ result' = Ok([hashData |-> HashWrites(a, b, c4, ci2),
                            digest |-> computeHash(a, b, Bytes(c4), ci2)])
    /\ pc' = "hashed"
    /\ UNCHANGED <<tkg, tpks, sk, cts, target, shares, heap, pkc, thr>>

NextDigest ==
    \/ \E values \in DigestInputs : DoRandomOracleDigest(values)
    \/ \E a \in ChallengeValues, b \in ChallengeValues,
          c \in ChallengeCiphertexts, ci \in ChallengeDecryptions :
          DoComputeHash(a, b, c, ci)

SpecDigest == Init /\ [][NextDigest]_vars

(***************************************************************************)
(* SpecDraw: one call of GetRandomNumberInMultiplicativeGroup(n), draw by  *)
(* draw.  The call within the call is the next round of the same loop.     *)
(***************************************************************************)
\* A faulty test of the draw: only 0 is turned down.
InMultiplicativeGroup_zeroOnly(n, r) == ~(ZeroBigInt = r)

\* zero.Cmp(r) == 0 || one.Cmp(GCD(n, r)) != 0 sends the call round again.
InMultiplicativeGroup(n, r) == ~(ZeroBigInt = r \/ OneBigInt # GCD(n, r))

\* The moduli tried: the small ones and the one of the test.
DrawModuli == 1..MaxModulus \cup {2 * 3 * 5 * 7}

CallDraw(n) ==
    /\ pc = "start"
    /\ query' = [n |-> n, last |-> -1]
    /\ pc' = "drawing"
    /\ UNCHANGED <<tkg, tpks, sk, cts, target, shares, heap, result, pkc, thr>>

\* rand.Int gives an r the test lets through: it is returned.
DrawUnit ==
    /\ pc = "drawing"
    /\ \E r \in 0..(query.n - 1) :
          /\ InMultiplicativeGroup(query.n, r)
          /\ result' = Ok(r)
    /\ pc' = "drawn"
    /\ UNCHANGED <<tkg, tpks, sk, cts, target, shares, query, heap, pkc, thr>>

\* rand.Int gives 0 or an r with a common factor: the function calls itself.
DrawAgain ==
    /\ pc = "drawing"
    /\ \E r \in 0..(query.n - 1) :
          /\ ~InMultiplicativeGroup(query.n, r)
          /\ query' = [query EXCEPT !.last = r]
    /\ UNCHANGED <<pc, tkg, tpks, sk, cts, target, shares, heap, result, pkc, thr>>

\* rand.Int returns an error: nil and the error are returned.
DrawError ==
    /\ pc = "drawing"
    /\ result' = Err(ReaderError)
    /\ pc' = "failed"
    /\ UNCHANGED <<tkg, tpks, sk, cts, target, shares, query, heap, pkc, thr>>

NextDraw ==
    \/ \E n \in DrawModuli : CallDraw(n)
    \/ DrawUnit
    \/ DrawAgain
    \/ DrawError

SpecDraw == Init /\ [][NextDraw]_vars

\* A fair random source: a value the test lets through is not withheld for
\* ever while the call keeps drawing.
FairSpecDraw == SpecDraw /\ WF_vars(DrawUnit)

(***************************************************************************)
(* SpecExp: tk.exp(a, b, c) on small operands and on those of TestExp.     *)
(***************************************************************************)
ExpBases == 0..MaxBase \cup {720}
ExpExponents == (-MaxExponent)..MaxExponent \cup {-10, 10}
ExpModuli == {9, 35, 49}

\* tk.exp(a, b, c): the call returns the *gmp.Int it built; it has no error
\* result and no branch that panics.
DoExp(a, b, c) ==
    /\ pc = "start"
    /\ query' = [a |-> a, b |-> b, c |-> c]
    /\ \E u \in UndefPool : result' = Ok(exp(a, b, c, u))
    /\ pc' = "exp"
    /\ UNCHANGED <<tkg, tpks, sk, cts, target, shares, heap, pkc, thr>>

NextExp == \E a \in ExpBases, b \in ExpExponents, c \in ExpModuli : DoExp(a, b, c)

SpecExp == Init /\ [][NextExp]_vars

(***************************************************************************)
(* Properties.                                                             *)
(***************************************************************************)
IsOk(res, v) == res.kind = "ok" /\ res.val = v
IsErr(res, e) == res.kind = "err" /\ res.val = e
SameOutcome(r1, r2) == r1.kind = r2.kind /\ r1.val = r2.val

DistinctIDs(ss) == \A i, j \in 1..Len(ss) : i # j => ss[i].ID # ss[j].ID
HasDuplicateID(ss) == \E i, j \in 1..Len(ss) : i < j /\ ss[i].ID = ss[j].ID

Perms(n) == {f \in [1..n -> 1..n] : \A i, j \in 1..n : i # j => f[i] # f[j]}
Permute(ss, f) == [i \in 1..Len(ss) |-> ss[f[i]]]

\* x^k mod n, from x^(k div 2) squared.
RECURSIVE PowMod(_, _, _)
PowMod(x, k, n) ==
    IF k = 0 THEN 1 % n
    ELSE LET h == PowMod(x, k \div 2, n)
         IN  (((h * h) % n) * (IF k % 2 = 1 THEN x % n ELSE 1)) % n

\* The product of the ciphertexts modulo n.
RECURSIVE ProdMod(_, _)
ProdMod(cs, n) == IF Len(cs) = 0 THEN 1 % n ELSE (Head(cs).C * ProdMod(Tail(cs), n)) % n

\* The inverse of the unit x modulo n.
InvOf(x, n) == CHOOSE y \in 0..(n - 1) : (x * y) % n = 1 % n

\* The product of the inverses of the ciphertexts modulo n.
RECURSIVE InvProdMod(_, _)
InvProdMod(cs, n) ==
    IF Len(cs) = 0 THEN 1 % n ELSE (InvOf(Head(cs).C, n) * InvProdMod(Tail(cs), n)) % n

AllUnits(cs, n) == \A i \in 1..Len(cs) : GCD(cs[i].C, n) = 1

\* C1: threshold round trip. For every key set GenerateKeys produces, every
\* plaintext m in [0, N), every c = Encrypt(m) and every list of shares
\* PartialDecrypt_i(c) of at least Threshold distinct servers,
\* CombinePartialDecryptions returns m with no error.
C1_ThresholdRoundTrip ==
    (/\ pc = "combined"
     /\ target.op = "Encrypt"
     /\ DistinctIDs(shares)
     /\ Len(shares) >= ThePublicKey.Threshold)
    => IsOk(result, target.m)

\* C2: CombinePartialDecryptions returns the error "Threshold not meet" and no
\* plaintext when there are fewer shares than Threshold (duplicates or not),
\* the duplicate error when there are enough shares but two carry one ID, and
\* goes on to interpolate exactly when there are at least Threshold shares
\* with pairwise distinct IDs.
C2_VerifyGate ==
    pc = "combined" =>
        LET w == ThePublicKey.Threshold
        IN  /\ Len(shares) < w => IsErr(result, "Threshold not meet")
            /\ (Len(shares) >= w /\ HasDuplicateID(shares))
                  => IsErr(result, "two shares has been created by the same server")
            /\ (result.kind = "ok")
                  <=> (Len(shares) >= w /\ ~HasDuplicateID(shares))
            /\ result.kind \in {"ok", "err"}

C2_Witness ==
    /\ pc = "combined"
    /\ Len(shares) > ThePublicKey.Threshold
    /\ HasDuplicateID(shares)
    /\ IsErr(result, "two shares has been created by the same server")

\* C3: order independence. For every list of partial decryptions and every
\* permutation of it, CombinePartialDecryptions returns the same outcome.
C3_OrderIndependence ==
    pc = "combined" =>
        \A f \in Perms(Len(shares)) :
            \E u \in UndefPool :
                SameOutcome(CombinePartialDecryptions(ThePublicKey,
                                Permute(shares, f), u), result)

\* C4: completeness of the proof. For every secret key of GenerateKeys and
\* every ciphertext c that is a unit modulo N^2, the proof
\* PartialDecryptionWithZKP(c) returns passes VerifyProof, and what the
\* verifier recomputes equals the prover's a = (c^4)^r and b = V^r modulo N^2.
C4_Completeness ==
    (pc = "target" /\ Len(tpks) > 0 /\ GCD(target.C, GetN2(ThePublicKey)) = 1) =>
        \A k \in 1..Len(shares), i \in 1..Len(tpks),
           r \in Nonces(GetN2(ThePublicKey)), u \in UndefPool :
            shares[k] = PartialDecryptionWithZKP(tpks[i], target.C, r) =>
                LET n2 == GetN2(tpks[i])
                IN  /\ VerifyProof(shares[k], u) = "true"
                    /\ verifyPart1(shares[k], u) = ExpMod(Pow4Mod(target.C, n2), r, n2)
                    /\ verifyPart2(shares[k], u) = ExpMod(tpks[i].VerificationKey, r, n2)

C4_Witness ==
    /\ pc = "target"
    /\ Len(shares) = 2
    /\ \A k \in 1..2 : shares[k] \in HonestProofs
    /\ shares[1].ID # shares[2].ID
    /\ shares[1].E # 0
    /\ ThePublicKey.VerificationKey # 1
    /\ VerifyProof(shares[1], 0) = "true"

\* C5: CombinePartialDecryptionsZKP returns what CombinePartialDecryptions
\* returns on the subsequence of the shares whose proof verifies; with fewer
\* than Threshold verifying proofs it returns an error and no plaintext.
C5_CombineZKP ==
    pc = "combinedZKP" =>
        \E u \in UndefPool :
            LET verified == verifiedShares(shares, u)
            IN  /\ SameOutcome(result,
                       CombinePartialDecryptions(ThePublicKey, verified, u))
                /\ Len(verified) < ThePublicKey.Threshold => result.kind = "err"

\* C6: VerifyDecryption(c, m, shares) returns nil exactly when every share
\* carries C = c and CombinePartialDecryptionsZKP(shares) succeeds with the
\* plaintext m; a share with another C makes it return the mismatch error
\* whatever combining would have done.
C6_VerifyDecryption ==
    pc = "verified" =>
        LET mismatch == \E i \in 1..Len(shares) : shares[i].C # query.c
        IN  /\ IsOk(result, 0)
                 <=> (/\ ~mismatch
                      /\ \E u \in UndefPool :
                            IsOk(CombinePartialDecryptionsZKP(ThePublicKey, shares, u),
                                 query.m))
            /\ mismatch => IsErr(result,
                   "The encrypted message is not the same than the one in the shares")

C6_Witness ==
    /\ pc = "verified"
    /\ Len(shares) = 2
    /\ \E i \in 1..2 : VerifyProof(shares[i], 0) = "false"
    /\ query.m # 0
    /\ IsOk(result, 0)

\* C7: homomorphic addition. For ciphertexts c1..ck (k >= 1) of m1..mk under
\* one key, Add returns the product of the ci modulo N^2, and that ciphertext
\* decrypts, by Decrypt or by combining at least Threshold partial
\* decryptions, to (m1 + ... + mk) mod N.
C7_Add ==
    target.op = "Add" =>
        /\ target.C = ProdMod(cts, GetN2(ThePublicKey))
        /\ pc = "decrypted" => IsOk(result, SumOf(cts) % ThePublicKey.N)
        /\ (/\ pc = "combined"
            /\ DistinctIDs(shares)
            /\ Len(shares) >= ThePublicKey.Threshold)
           => IsOk(result, SumOf(cts) % ThePublicKey.N)

\* C8: homomorphic subtraction. For ciphertexts c0, c1..ck that are units
\* modulo N^2 and encrypt m0, m1..mk, Sub(c0, c1, ..., ck) is c0 times the
\* product of the inverses of c1..ck modulo N^2, and decrypts to
\* (m0 - m1 - ... - mk) mod N.
C8_Sub ==
    (target.op = "Sub" /\ AllUnits(cts, GetN2(ThePublicKey))) =>
        /\ target.C = (cts[1].C * InvProdMod(Tail(cts), GetN2(ThePublicKey)))
                         % GetN2(ThePublicKey)
        /\ pc = "decrypted"
              => IsOk(result, (cts[1].m - SumOf(Tail(cts))) % ThePublicKey.N)

C8_Witness ==
    /\ pc = "decrypted"
    /\ target.op = "Sub"
    /\ Len(cts) = 2
    /\ cts[1].m < cts[2].m
    /\ IsOk(result, cts[1].m - cts[2].m + ThePublicKey.N)

\* C9: scalar multiplication. For every ciphertext c of m and every scalar
\* k >= 0, ConstMult(c, k) is c^k mod N^2 and decrypts to (k * m) mod N.
C9_ConstMult ==
    target.op = "ConstMult" =>
        \E k \in 0..MaxScalar :
            /\ target.C = PowMod(cts[1].C, k, GetN2(ThePublicKey))
            /\ target.m = (k * cts[1].m) % ThePublicKey.N
            /\ pc = "decrypted" => IsOk(result, (k * cts[1].m) % ThePublicKey.N)

C9_Witness ==
    /\ pc = "decrypted"
    /\ target.op = "ConstMult"
    /\ cts[1].m = ThePublicKey.N - 1
    /\ IsOk(result, ThePublicKey.N - 3)

\* C10: single-key round trip. For every key pair of KeyGen, every plaintext
\* m in [0, N) and every r in (Z/NZ)*, EncryptWithR(m, r) is
\* (1+N)^m * r^N mod N^2 and Decrypt returns m from it.
C10_SingleKeyRoundTrip ==
    (Len(tpks) = 0 /\ sk # NoKey) =>
        /\ \A i \in 1..Len(cts) :
              \E r \in GetRandomNumberInMultiplicativeGroup(sk.N) :
                 cts[i].C = (PowMod(1 + sk.N, cts[i].m, GetN2(sk))
                               * PowMod(r, sk.N, GetN2(sk))) % GetN2(sk)
        /\ (pc = "decrypted" /\ target.op = "Encrypt") => IsOk(result, target.m)

C10_Witness ==
    /\ pc = "decrypted"
    /\ target.op = "Encrypt"
    /\ target.m = sk.N - 1
    /\ IsOk(result, sk.N - 1)

\* What one call NewThresholdKeyGenerator(b, l, w) has to do.
C11_Step(b, l, w) ==
    NewThresholdKeyGenerator(b, l, w) =>
        /\ (b % 2 = 1 \/ b < 18) <=> (pc' = "rejected" /\ result'.kind = "err")
        /\ (b % 2 = 1 \/ b < 18) => tkg' = NoGenerator
        /\ b \in {17, 19} => result'.val = "Public key bit length must be an even number"
        /\ b = 16 => result'.val = "Public key bit length must be at least 18 bits"
        /\ (b % 2 = 0 /\ b >= 18) =>
              /\ pc' = "tkg"
              /\ tkg'.PublicKeyBitLength = b
              /\ tkg'.TotalNumberOfDecryptionServers = l
              /\ tkg'.Threshold = w

\* C11: NewThresholdKeyGenerator returns an error and no generator exactly
\* when publicKeyBitLength is odd or below 18; 17 and 19 get the even-number
\* error and 16 the at-least-18 error; for an even length of 18 or more the
\* generator carries the three arguments.
C11_BitLengthGate ==
    [][\A b \in BitLengths, l \in 1..MaxServers, w \in 0..MaxThreshold :
          C11_Step(b, l, w)]_vars

C11_Witness ==
    /\ pc = "rejected"
    /\ IsErr(result, "Public key bit length must be at least 18 bits")

\* C12: a successful GenerateKeys returns exactly l secret keys; the key at
\* 0-based position i has ID i + 1, so the IDs are 1..l without 0 and without
\* repeats; every key carries the same N, the same V, Threshold = w,
\* TotalNumberOfDecryptionServers = l and l verification keys.
C12_KeySet ==
    pc \in {"keys", "target", "combined"} =>
        /\ Len(tpks) = tkg.TotalNumberOfDecryptionServers
        /\ \A i \in 1..Len(tpks) :
              /\ tpks[i].ID = (i - 1) + 1
              /\ tpks[i].N = tpks[1].N
              /\ tpks[i].N = tkg.p * tkg.q
              /\ tpks[i].VerificationKey = tpks[1].VerificationKey
              /\ tpks[i].Threshold = tkg.Threshold
              /\ tpks[i].TotalNumberOfDecryptionServers = tkg.TotalNumberOfDecryptionServers
              /\ Len(tpks[i].VerificationKeys) = tkg.TotalNumberOfDecryptionServers
        /\ {tpks[i].ID : i \in 1..Len(tpks)} = 1..tkg.TotalNumberOfDecryptionServers
        /\ DistinctIDs(tpks)

C12_Witness ==
    /\ pc = "keys"
    /\ Len(tpks) = 3
    /\ tpks[3].ID = 3
    /\ tpks[1].Threshold = 2

\* The pairs of key objects: k, and c made by PublicKey() on k.
CopyPairs(h) ==
    {kc \in (1..Len(h.keys)) \X (1..Len(h.keys)) : h.keys[kc[2]].from = kc[1]}

\* A PublicKey() step: the new key object's vector equals the original's in
\* value, and neither its slice nor its entries existed before.
C13_FreshCopy ==
    \A k \in 1..Len(tpks) :
        (pc = "keys" /\ Len(tpks) > 0 /\ heap' = PublicKeyAt(heap, k)) =>
            LET c == Len(heap'.keys)
            IN  /\ heap'.keys[c].from = k
                /\ VectorOf(heap', c) = VectorOf(heap, k)
                /\ heap'.keys[c].VerificationKeys > Len(heap.arrs)
                /\ \A i \in 1..Len(VectorOf(heap', c)) :
                      heap'.arrs[heap'.keys[c].VerificationKeys][i] > Len(heap.ints)

\* A write through key object x leaves the other side of every pair alone.
C13_WriteStep(x, i, val) ==
    (ReplaceEntry(x, i, val) \/ ChangeInPlace(x, i, val)) =>
        \A kc \in CopyPairs(heap) :
            /\ x = kc[2] => VectorOf(heap', kc[1]) = VectorOf(heap, kc[1])
            /\ x = kc[1] => VectorOf(heap', kc[2]) = VectorOf(heap, kc[2])

\* C13: defensive copy.  PublicKey() returns a public key whose
\* VerificationKeys vector is a fresh copy equal in value to the original;
\* a later replacement or in-place change of an entry on either side leaves
\* the other side's vector unchanged.
C13_DefensiveCopy ==
    [][/\ C13_FreshCopy
       /\ \A x \in 1..(2 + MaxCopies), i \in 1..2, val \in WrittenValues :
             C13_WriteStep(x, i, val)]_vars

C13_Witness ==
    /\ heap.writes = 2
    /\ \E kc \in CopyPairs(heap) :
          /\ VectorOf(heap, kc[1]) # VectorOf(heap, kc[2])
          /\ 89 \in {VectorOf(heap, kc[1])[i] : i \in 1..Len(VectorOf(heap, kc[1]))}
          /\ 0 \in {VectorOf(heap, kc[2])[i] : i \in 1..Len(VectorOf(heap, kc[2]))}

\* Ciphertext values PartialDecrypt is tried on: 0, 1, units and non-units.
CipherSamples(n2) == {c \in {0, 1, 2, 5, 7, 35, n2 - 2, n2 - 1} : 0 <= c /\ c < n2}

\* The key of TestDecrypt.
TestDecryptKey ==
    [N |-> 101 * 103, VerificationKey |-> 0, TotalNumberOfDecryptionServers |-> 10,
     Threshold |-> 0, Share |-> 862, ID |-> 9, VerificationKeys |-> <<>>]

\* C14: PartialDecrypt(c) returns the key's ID and c^(2 * delta * Share) mod
\* N^2, delta = l!, for every c in [0, N^2); l = 10, N = 10403, Share = 862,
\* ID = 9, c = 56 give Decryption 40644522 and ID 9.
C14_PartialDecrypt ==
    /\ pc = "keys" =>
          \A i \in 1..Len(tpks), c \in CipherSamples(GetN2(ThePublicKey)) :
              LET pd == PartialDecrypt(tpks[i], c)
              IN  /\ pd.ID = tpks[i].ID
                  /\ pd.Decryption
                        = PowMod(c, 2 * Factorial(tkg.TotalNumberOfDecryptionServers)
                                      * tpks[i].Share, tpks[i].N * tpks[i].N)
                  /\ PartialDecryptWide(tpks[i], c) = pd
    /\ pc = "target" =>
          \A k \in 1..Len(shares) :
              \E i \in 1..Len(tpks) :
                  /\ shares[k].ID = tpks[i].ID
                  /\ shares[k].Decryption
                        = PowMod(target.C, 2 * Factorial(tkg.TotalNumberOfDecryptionServers)
                                             * tpks[i].Share, tpks[i].N * tpks[i].N)
    /\ pc = "start" =>
          PartialDecryptWide(TestDecryptKey, 56) = [ID |-> 9, Decryption |-> 40644522]

C14_Witness ==
    /\ pc = "target"
    /\ Len(shares) = 2
    /\ shares[1].ID # shares[2].ID
    /\ shares[1].Decryption # 1
    /\ tkg.TotalNumberOfDecryptionServers = 3


\* The generator gave up: a draw of the reader or the safe-prime search failed.
GenerationFailed == pc = "failed"

\* C15: an error of the safe-prime search or of the reader at any step of
\* GenerateKeys (p and q, V, a coefficient) is returned with a nil key list:
\* no key, and no part of a key set, comes out of a failed generation.
C15_ErrorsPropagate ==
    /\ GenerationFailed =>
          /\ result.kind = "err"
          /\ result.val \in SafePrimeErrors \cup {ReaderError}
          /\ tpks = <<>>
          /\ heap = NoHeap
    /\ tpks # <<>> =>
          /\ ~GenerationFailed
          /\ Len(tpks) = tkg.TotalNumberOfDecryptionServers

C15_Witness ==
    /\ GenerationFailed
    /\ arePsAndQsGood(tkg) /\ tkg.p # 0 /\ tkg.q # 0
    /\ tkg.Threshold >= 2
    /\ result = Err(ReaderError)
    /\ tpks = <<>>


\* The generator holding the pair p, q and their halves.
GeneratorOf(p, q) ==
    [NoGenerator EXCEPT !.p = p, !.p1 = (p - 1) \div 2,
                        !.q = q, !.q1 = (q - 1) \div 2]

\* What initShortcuts and initD leave for the pair g holds: m is a unit
\* modulo n, and d is (m^-1 mod n) * m, a multiple of m that is 1 modulo n.
InitDGood(g) ==
    LET sc == initShortcuts(g)
    IN  /\ GCD(sc.m, sc.n) = 1
        /\ \A u \in UndefPool :
              LET d == initD(sc, u)
                  mInverse == d \div sc.m
              IN  /\ 0 < mInverse /\ mInverse < sc.n
                  /\ (mInverse * sc.m) % sc.n = 1
                  /\ d = mInverse * sc.m
                  /\ d % sc.m = 0
                  /\ d % sc.n = 1

\* C16: for every pair of safe primes that arePsAndQsGood accepts, m = p'q'
\* is invertible modulo n = pq and initD gives d = (m^-1 mod n) * m with
\* d mod m = 0 and d mod n = 1: for the pair the generator holds, and for
\* every pair of safe primes up to MaxSafePrime.
C16_InitD ==
    pc = "primes" =>
        /\ arePsAndQsGood(tkg)
        /\ InitDGood(tkg)
        /\ \A p \in SafePrimesUpTo(MaxSafePrime), q \in SafePrimesUpTo(MaxSafePrime) :
              arePsAndQsGood(GeneratorOf(p, q)) => InitDGood(GeneratorOf(p, q))

C16_Witness ==
    /\ pc = "primes"
    /\ tkg.p = 7 /\ tkg.q = 5
    /\ arePsAndQsGood(tkg)
    /\ initD(initShortcuts(tkg), 0) = 36
    /\ ~arePsAndQsGood(GeneratorOf(11, 5))
    /\ arePsAndQsGood(GeneratorOf(107, 83))


\* C17: in every secret key GenerateKeys hands out, the verification key at
\* 0-based position ID - 1 is V^(delta * Share) mod N^2 with delta = l!: the
\* entry VerifyProof reads for a server's ID comes from that server's share.
C17_VerificationKeys ==
    tpks # <<>> =>
        \A i \in 1..Len(tpks) :
            LET k == tpks[i]
                position == k.ID - 1
            IN  /\ 0 <= position /\ position < Len(k.VerificationKeys)
                /\ k.VerificationKeys[position + 1] =
                      PowMod(k.VerificationKey,
                             Factorial(k.TotalNumberOfDecryptionServers) * k.Share,
                             k.N * k.N)

C17_Witness ==
    /\ pc = "keys"
    /\ Len(tpks) = 3
    /\ tpks[2].Share # tpks[1].Share
    /\ tpks[2].Share > 0
    /\ tpks[2].VerificationKeys[2] # 1
    /\ tpks[2].VerificationKeys[2] # tpks[2].VerificationKeys[1]
    /\ tpks[2].VerificationKeys[2] # ExpMod(tpks[2].VerificationKey, tpks[2].Share, tpks[2].N * tpks[2].N)


\* The public key of TestCombineSharesConstant: N = 101 * 103, six servers.
TestCombineKey ==
    [N |-> 10403, TotalNumberOfDecryptionServers |-> 6, Threshold |-> 1,
     VerificationKey |-> 0, VerificationKeys |-> <<>>]

\* C18: (4 * delta^2)^-1 mod N exists for every key set the generator hands
\* out, whatever the number of servers l, so combineSharesConstant is the
\* inverse of 4 * delta^2 modulo N; N = 10403 with l = 6 gives 4558.
C18_InverseExists ==
    /\ \A u \in UndefPool : combineSharesConstant(TestCombineKey, u) = 4558
    /\ tpks # <<>> =>
          \A i \in 1..Len(tpks), u \in UndefPool :
              LET tk == PublicKey(tpks[i])
                  fourDeltaSquared == FourBigInt * (delta(tk) * delta(tk))
              IN  /\ GCD(fourDeltaSquared % tk.N, tk.N) = 1
                  /\ (combineSharesConstant(tk, u) * fourDeltaSquared) % tk.N = 1


\* The lists of k shares with pairwise distinct IDs of 1..l, in every order.
ShareLists(l, k) ==
    {[i \in 1..k |-> [ID |-> f[i], Decryption |-> 0]] :
        f \in {g \in [1..k -> 1..l] : \A i, j \in 1..k : i # j => g[i] # g[j]}}

\* Every division computeLambda's loop makes for share over rest, starting
\* from lambda, has a divisor other than zero and leaves no remainder.
RECURSIVE DivisionsExact(_, _, _)
DivisionsExact(share, rest, lambda) ==
    IF Len(rest) = 0 THEN TRUE
    ELSE IF Head(rest).ID # share.ID
    THEN LET num   == lambda * (-Head(rest).ID)
             denom == share.ID - Head(rest).ID
         IN  /\ denom # 0
             /\ num % Abs(denom) = 0
             /\ updateLambda(share, Head(rest), lambda) * denom = num
             /\ DivisionsExact(share, Tail(rest),
                               updateLambda(share, Head(rest), lambda))
    ELSE DivisionsExact(share, Tail(rest), lambda)

\* The products of -j and of i - j over the shares j of ss other than i.
RECURSIVE ProdOthers(_, _, _)
ProdOthers(i, ss, negated) ==
    IF Len(ss) = 0 THEN 1
    ELSE (IF Head(ss).ID = i THEN 1
          ELSE IF negated THEN -Head(ss).ID ELSE i - Head(ss).ID)
         * ProdOthers(i, Tail(ss), negated)

\* computeLambda on ss, for each share of ss: exact divisions, and the value
\* delta * prod (-j) / (i - j).
LambdaGood(tk, ss) ==
    \A x \in 1..Len(ss) :
        /\ DivisionsExact(ss[x], ss, delta(tk))
        /\ computeLambda(tk, ss[x], ss) * ProdOthers(ss[x].ID, ss, FALSE)
              = delta(tk) * ProdOthers(ss[x].ID, ss, TRUE)

\* The submitted shares have pairwise distinct IDs of 1..l.
ValidIDs(tk, ss) ==
    /\ DistinctIDs(ss)
    /\ \A x \in 1..Len(ss) : ss[x].ID \in 1..tk.TotalNumberOfDecryptionServers

\* C19: for shares with pairwise distinct IDs in [1, l] and each share i of
\* them, every division of updateLambda during computeLambda is exact and
\* by a number other than zero, in whatever order the shares stand, and the
\* result is delta * prod over j # i of (-j) / (i - j): for the shares handed
\* in, and for every list of distinct IDs of the key set just generated.
C19_LambdaExact ==
    /\ (tpks # <<>> /\ ValidIDs(ThePublicKey, shares))
          => LambdaGood(ThePublicKey, shares)
    /\ pc = "keys" =>
          \A k \in 1..Len(tpks) : \A ss \in ShareLists(Len(tpks), k) :
              LambdaGood(ThePublicKey, ss)

C19_Witness ==
    /\ tpks # <<>>
    /\ Len(shares) = 3
    /\ ValidIDs(ThePublicKey, shares)
    /\ shares[1].ID > shares[2].ID
    /\ computeLambda(ThePublicKey, shares[1], shares) < 0
    /\ computeLambda(ThePublicKey, shares[1], shares) # -delta(ThePublicKey)


\* What exp returns where the power has an inverse: a^b mod c for b >= 0
\* (1 for b = 0), the inverse of a^|b| modulo c for b < 0, and the three
\* values of TestExp.
ExpWhereInverseExists ==
    pc = "exp" =>
        LET a == query.a
            b == query.b
            c == query.c
            power == PowMod(a, Abs(b), c)
        IN  /\ b >= 0 => IsOk(result, power)
            /\ b = 0 => IsOk(result, 1)
            /\ (b < 0 /\ GCD(power, c) = 1) =>
                  /\ result.kind = "ok"
                  /\ (result.val * power) % c = 1
            /\ GCD(a, c) = 1 =>
                  \A u \in UndefPool :
                      (exp(a, b, c, u) * exp(a, -b, c, u)) % c = 1
            /\ (a = 720 /\ b = 10 /\ c = 49) => IsOk(result, 43)
            /\ (a = 720 /\ b = 0 /\ c = 49) => IsOk(result, 1)
            /\ (a = 720 /\ b = -10 /\ c = 49) => IsOk(result, 8)

\* C20: exp(a, b, c) is a^b mod c for b >= 0 (1 for b = 0); for b < 0 it is
\* the inverse of a^|b| modulo c, so exp(a, b, c) * exp(a, -b, c) is 1 modulo
\* c when gcd(a, c) = 1; the call fails when that inverse does not exist;
\* exp(720, 10, 49) = 43, exp(720, 0, 49) = 1, exp(720, -10, 49) = 8.
C20_SignedExp ==
    /\ ExpWhereInverseExists
    /\ pc = "exp" =>
          ((query.b < 0 /\ GCD(PowMod(query.a, Abs(query.b), query.c), query.c) # 1)
              => result.kind # "ok")

\* The three conditions of arePsAndQsGood on the stored primes.
PrimesGood(g) == g.p # g.q /\ g.p # g.q1 /\ g.p1 # g.q

\* C21: when initPsAndQs returns without error the stored primes satisfy
\* p # q, p # q' and p' # q; a drawn pair that breaks one of these is never
\* used for n and m: both primes are drawn again.
C21_PrimesGood ==
    /\ pc = "primes" =>
          /\ PrimesGood(tkg)
          /\ tkg.p1 = (tkg.p - 1) \div 2 /\ tkg.q1 = (tkg.q - 1) \div 2
    /\ (pc = "tkg" /\ tkg.p # 0 /\ tkg.q # 0) => ~PrimesGood(tkg)
    /\ ~PrimesGood(tkg) => tpks = <<>>
    /\ tpks # <<>> =>
          /\ PrimesGood(tkg)
          /\ tpks[1].N = tkg.p * tkg.q
          /\ initShortcuts(tkg).m = tkg.p1 * tkg.q1

C21_Witness ==
    /\ pc = "tkg"
    /\ tkg.p = 11 /\ tkg.q = 5
    /\ tkg.p1 = tkg.q
    /\ tpks = <<>>


\* The value of the Int a cache field points to, 0 for nil.
Cached(field) == IF pkc[field] = 0 THEN 0 ELSE pkc.objs[pkc[field]].val

\* With the accesses of the threads taken one after the other in some order,
\* n2 and n2BigInt hold nil or an Int of value N * N, and the Int a call of
\* GetN2 or GetN2AsBigInt returns has the value N * N.
SquareInOrder ==
    /\ pkc.n2 # 0 => Cached("n2") = sk.N * sk.N
    /\ pkc.n2BigInt # 0 => Cached("n2BigInt") = sk.N * sk.N
    /\ \A t \in 1..MaxThreads :
          thr[t].ret.fn \in {"GetN2", "GetN2AsBigInt"} =>
              /\ thr[t].ret.ptr # 0
              /\ thr[t].ret.val = sk.N * sk.N

\* C22: with any number of threads calling GetN2 or GetN2AsBigInt on one
\* PublicKey with a fixed N, in any interleaving, every call returns a value
\* equal to N * N, and the cache field holds nil or a value equal to N * N.
C22_SquareCache ==
    /\ SquareInOrder
    /\ \A t \in 1..MaxThreads :
          thr[t].ret.fn \in {"GetN2", "GetN2AsBigInt"} =>
              thr[t].ret.seen = sk.N * sk.N


\* C23: with any number of threads calling GetN3 on one PublicKey with a
\* fixed N, in any interleaving, every call returns a value equal to N^3; no
\* caller gets a cached value that is still being computed.
C23_CubeCache ==
    \A t \in 1..MaxThreads :
        thr[t].ret.fn = "GetN3" =>
            /\ thr[t].ret.ptr # 0
            /\ thr[t].ret.val = (sk.N * sk.N) * sk.N
            /\ thr[t].ret.seen = (sk.N * sk.N) * sk.N


\* The unpadded big-endian bytes of every value of vs, one after the other.
RECURSIVE AllBytes(_)
AllBytes(vs) == IF Len(vs) = 0 THEN <<>> ELSE Bytes(Head(vs)) \o AllBytes(Tail(vs))

\* What RandomOracleDigest does with every value but the first: their bytes
\* are hashed in the order given, and changing one of them changes the byte
\* string hashed.
DigestOfTail ==
    pc = "digest" =>
        /\ result.val.hashData = AllBytes(Tail(query.values))
        /\ \A i \in 2..Len(query.values), x \in DigestValues :
              x # query.values[i] =>
                  RandomOracleData([query.values EXCEPT ![i] = x], 0)
                      # result.val.hashData

\* C24: RandomOracleDigest hashes the concatenation of the unpadded
\* big-endian bytes of every value in the order given, so changing any one
\* input value, the first included, changes the byte string hashed.
C24_DigestInput ==
    /\ DigestOfTail
    /\ pc = "digest" =>
          /\ result.val.hashData = AllBytes(query.values)
          /\ \A x \in DigestValues :
                x # query.values[1] =>
                    RandomOracleData([query.values EXCEPT ![1] = x], 0)
                        # result.val.hashData

\* What key object k holds: the values of its N, its V and its vector.
Holds(h, k) ==
    [N |-> h.ints[h.keys[k].N],
     VerificationKey |-> h.ints[h.keys[k].VerificationKey],
     VerificationKeys |-> VectorOf(h, k)]

\* A write through the secret key x leaves every other secret key as it was.
C25_WriteStep(x, i, field, val) ==
    (ReplaceEntry(x, i, val) \/ ChangeInPlace(x, i, val)
        \/ ChangeFieldInPlace(x, field, val)) =>
        \A y \in 1..Len(tpks) :
            (x \in 1..Len(tpks) /\ y # x) => Holds(heap', y) = Holds(heap, y)

\* C25: every secret key of GenerateKeys owns its copy of the public key:
\* replacing or changing an entry of one key's VerificationKeys, or changing
\* its N or V in place, changes nothing another emitted secret key holds.
C25_OwnCopy ==
    [][\A x \in 1..(2 + MaxCopies), i \in 1..2, field \in KeyFields,
          val \in WrittenValues : C25_WriteStep(x, i, field, val)]_vars


\* C26: every generator NewThresholdKeyGenerator returns without error has
\* 1 <= Threshold <= TotalNumberOfDecryptionServers, so GenerateKeys never
\* reaches past the coefficient vector (Threshold = 0) and never hands out a
\* key set whose threshold is above the number of servers.
C26_ThresholdRange ==
    /\ tkg # NoGenerator =>
          /\ 1 <= tkg.Threshold
          /\ tkg.Threshold <= tkg.TotalNumberOfDecryptionServers
    /\ ~(pc = "panic" /\ tkg # NoGenerator /\ result = Panic)
    /\ tpks # <<>> =>
          \A i \in 1..Len(tpks) : tpks[i].Threshold <= Len(tpks)


\* What a finished call of GetRandomNumberInMultiplicativeGroup has returned.
DrawnInGroup ==
    /\ pc = "drawn" =>
          /\ result.kind = "ok"
          /\ 1 <= result.val /\ result.val < query.n
          /\ GCD(result.val, query.n) = 1
    /\ pc = "failed" => IsErr(result, ReaderError)
    /\ (pc = "drawing" /\ query.last # -1) =>
          (query.last = 0 \/ GCD(query.last, query.n) # 1)

\* C27: GetRandomNumberInMultiplicativeGroup(n) only returns an r with
\* 1 <= r < n and gcd(r, n) = 1 and draws again when the draw is 0 or shares
\* a factor with n; for n > 1 and a fair random source the call returns in
\* the end; an error of the random source is what the call returns.
C27_DrawReturns ==
    /\ []DrawnInGroup
    /\ (pc = "drawing" /\ query.n > 1) ~> (pc \in {"drawn", "failed"})

C27_Witness ==
    /\ pc = "drawn"
    /\ query.n = 2 * 3 * 5 * 7
    /\ query.last = 35
    /\ result = Ok(11)


\* C28: every share CombinePartialDecryptionsZKP lets through to the
\* interpolation carries a proof that verifies against the combining key tk
\* itself (its N, V and VerificationKeys); a share does not get through by
\* carrying a Key of its own that differs from tk.
C28_VerifiedAgainstTk ==
    (pc = "combinedZKP" /\ result.kind # "panic") =>
        \A i \in 1..Len(shares), u \in UndefPool :
            VerifyProof(shares[i], u) = "true" =>
                /\ shares[i].Key = PublicKey(ThePublicKey)
                /\ VerifyProof([shares[i] EXCEPT !.Key = PublicKey(ThePublicKey)], u)
                      = "true"


\* The proof's ID is 0 or above the number of verification keys of its Key.
IDOutOfRange(pd) == pd.ID < 1 \/ pd.ID > Len(pd.Key.VerificationKeys)

\* The shares whose ID is within the range of their Key.
RECURSIVE InRange(_)
InRange(ss) ==
    IF Len(ss) = 0 THEN <<>>
    ELSE (IF IDOutOfRange(Head(ss)) THEN <<>> ELSE <<Head(ss)>>) \o InRange(Tail(ss))

\* C29: VerifyProof returns false, and does not fail with an out-of-range
\* access, for a proof whose ID is 0 or larger than the number of
\* verification keys, so CombinePartialDecryptionsZKP drops such a share like
\* any other share with a failing proof.
C29_OutOfRangeID ==
    (pc \in {"target", "combinedZKP"} /\ Len(tpks) > 0) =>
        /\ \A i \in 1..Len(shares), u \in UndefPool :
              shares[i].Key # NilKey =>
                  /\ IDOutOfRange(shares[i]) => VerifyProof(shares[i], u) = "false"
                  /\ VerifyProof([shares[i] EXCEPT
                        !.ID = Len(shares[i].Key.VerificationKeys) + 1], u) = "false"
        /\ (pc = "combinedZKP" /\ \A i \in 1..Len(shares) : shares[i].Key # NilKey) =>
              \E u \in UndefPool :
                  SameOutcome(result,
                      CombinePartialDecryptionsZKP(ThePublicKey, InRange(shares), u))


\* The tuples (a, b, c^4, ci^2) computeHash is tried on.
ChallengeTuples ==
    {<<a, b, ExpNil(c, FourBigInt), ExpNil(ci, TwoBigInt)>> :
        a \in ChallengeValues, b \in ChallengeValues,
        c \in ChallengeCiphertexts, ci \in ChallengeDecryptions}

\* C30: the byte string computeHash and VerifyProof hash for the challenge
\* determines the tuple (a, b, c^4, ci^2): no other tuple of non-negative
\* integers gives the same concatenation of unpadded big-endian encodings.
C30_ChallengeInput ==
    pc = "hashed" =>
        \A t \in ChallengeTuples :
            t # <<query.a, query.b, query.c4, query.ci2>> =>
                HashWrites(t[1], t[2], t[3], t[4]) # result.val.hashData

====
